---- MODULE Spec2Model ----
(***************************************************************************)
(* Model of the arducam-legacy driver (src/src/lib.rs): the Arducam struct *)
(* with its two bus handles, and its public operations.  Both buses and    *)
(* the delay provider are the environment: every call of an operation is   *)
(* given a bus script saying which of its transactions fail and which      *)
(* bytes the device returns.  An operation runs to completion (the driver  *)
(* is synchronous and single-threaded), and leaves behind the list of the  *)
(* bus transactions and delays it issued, in order, and its Result.  The   *)
(* FIFO chip keeps the capture state its commands have put it in.          *)
(***************************************************************************)
EXTENDS Naturals, Sequences, FiniteSets

VARIABLES resolution, format, call, trace, result, capture

vars == <<resolution, format, call, trace, result, capture>>

(* ------------------------------------------------------------------ *)
(* Bounds of the model                                                  *)
(* ------------------------------------------------------------------ *)

\* number of (register, value) pairs of every static register table
TableLen == 2

\* largest caller buffer handed to read_captured_image
MaxBuf == 2

(* ------------------------------------------------------------------ *)
(* Constants of lib.rs                                                  *)
(* ------------------------------------------------------------------ *)

ARDUCHIP_TEST1 == 0
ARDUCHIP_FIFO == 4
ARDUCHIP_TRIG == 65
OV2640_ADDR == 96 \div 2
OV2640_CHIPID_HIGH == 10
OV2640_CHIPID_LOW == 11
FIFO_CLEAR_MASK == 1
FIFO_START_MASK == 2
FIFO_BURST == 60
FIFO_SIZE1 == 66
FIFO_SIZE2 == 67
FIFO_SIZE3 == 68
CAP_DONE_MASK == 8
WRITE_FLAG == 128

Byte == 0..255

Resolutions == {"Res160x120", "Res176x144", "Res320x240", "Res352x288",
                "Res640x480", "Res800x600", "Res1024x768", "Res1280x1024",
                "Res1600x1200"}

ImageFormats == {"JPEG"}

(* ------------------------------------------------------------------ *)
(* u8 / u32 arithmetic                                                  *)
(* ------------------------------------------------------------------ *)

RECURSIVE BitAnd(_, _)
BitAnd(a, b) ==
    IF a = 0 \/ b = 0 THEN 0
    ELSE (a % 2) * (b % 2) + 2 * BitAnd(a \div 2, b \div 2)

RECURSIVE BitOr(_, _)
BitOr(a, b) ==
    IF a = 0 THEN b
    ELSE IF b = 0 THEN a
    ELSE (IF a % 2 = 1 \/ b % 2 = 1 THEN 1 ELSE 0) + 2 * BitOr(a \div 2, b \div 2)

\* x << n on u32: the bits shifted past bit 31 are dropped
Shl32(x, n) == (x % 2^(32 - n)) * 2^n

(* ------------------------------------------------------------------ *)
(* Static register tables (module ov2640_registers)                     *)
(* ------------------------------------------------------------------ *)

\* the table with tag id: TableLen pairs (register, value), all distinct
\* from the pairs of every other table
RegTable(id) == [i \in 1..TableLen |-> <<16 * id + i, i>>]

OV2640_JPEG_INIT == RegTable(1)
OV2640_YUV422 == RegTable(2)
OV2640_JPEG == RegTable(3)
OV2640_160x120_JPEG == RegTable(4)
OV2640_176x144_JPEG == RegTable(5)
OV2640_320x240_JPEG == RegTable(6)
OV2640_352x288_JPEG == RegTable(7)
OV2640_640x480_JPEG == RegTable(8)
OV2640_800x600_JPEG == RegTable(9)
OV2640_1024x768_JPEG == RegTable(10)
OV2640_1280x1024_JPEG == RegTable(11)
OV2640_1600x1200_JPEG == RegTable(12)

(* ------------------------------------------------------------------ *)
(* The buses and the delay provider (embedded-hal traits)               *)
(* ------------------------------------------------------------------ *)

\* Result<T, Error>
Ok(v) == [ok |-> TRUE, err |-> "none", val |-> v]
Err(e) == [ok |-> FALSE, err |-> e, val |-> <<>>]
Unit == <<>>

\* embedded_hal::spi::Operation::Write(bytes) / Operation::Read(buffer of n)
WriteOp(bytes) == [t |-> "W", bytes |-> bytes, n |-> Len(bytes)]
ReadOp(n) == [t |-> "R", bytes |-> <<>>, n |-> n]

\* one entry of the trace of a call
Event(bus, dev, ops, ms, ok) ==
    [bus |-> bus, dev |-> dev, ops |-> ops, ms |-> ms, ok |-> ok]

\* the state of a call in progress: the script of the buses, the number of
\* transactions and of bytes read so far, the events so far, the outcome of
\* the last transaction (hal, data) and the Result of the last function
NewCall(bus) ==
    [bus |-> bus, n |-> 0, r |-> 0, trace |-> <<>>,
     hal |-> TRUE, data |-> <<>>, res |-> Ok(Unit)]

Ret(c, res) == [c EXCEPT !.res = res]

RxByte(bus, i) == IF i <= Len(bus.rx) THEN bus.rx[i] ELSE 0

\* one transaction on a bus: it fails as a whole when the script says so;
\* otherwise its reads deliver the next nread bytes of the script
Transact(c, bus, dev, ops, nread) ==
    LET k == c.n + 1
        fail == k \in c.bus.faults
    IN  [c EXCEPT !.n = k,
                  !.trace = Append(@, Event(bus, dev, ops, 0, ~fail)),
                  !.hal = ~fail,
                  !.data = IF fail THEN <<>>
                           ELSE [j \in 1..nread |-> RxByte(c.bus, c.r + j)],
                  !.r = IF fail THEN @ ELSE @ + nread]

\* SpiDevice::transaction
SpiTransaction(c, ops, nread) == Transact(c, "spi", 0, ops, nread)

\* I2c::write
I2cWrite(c, addr, bytes) == Transact(c, "i2c", addr, <<WriteOp(bytes)>>, 0)

\* I2c::write_read
I2cWriteRead(c, addr, bytes, n) ==
    Transact(c, "i2c", addr, <<WriteOp(bytes), ReadOp(n)>>, n)

\* DelayNs::delay_ms
DelayMs(c, ms) ==
    [c EXCEPT !.trace = Append(@, Event("delay", 0, <<>>, ms, TRUE))]

(* ------------------------------------------------------------------ *)
(* Register bus adapter and sensor bus adapter                          *)
(* ------------------------------------------------------------------ *)

arduchip_write(c, addr, data) ==
    LET c1 == SpiTransaction(c, <<WriteOp(<<addr>>), WriteOp(<<data>>)>>, 0)
    IN  IF c1.hal THEN Ret(c1, Ok(Unit)) ELSE Ret(c1, Err("Spi"))

arduchip_read(c, addr) ==
    LET c1 == SpiTransaction(c, <<WriteOp(<<addr>>), ReadOp(1)>>, 1)
    IN  IF c1.hal THEN Ret(c1, Ok(c1.data[1])) ELSE Ret(c1, Err("Spi"))

arduchip_write_reg(c, addr, data) ==
    arduchip_write(c, BitOr(addr, WRITE_FLAG), data)

\* mutant: the write flag is not cleared from the address of a read
arduchip_read_reg_nomask(c, addr) ==
    arduchip_read(c, addr)

arduchip_read_reg(c, addr) ==
    arduchip_read(c, BitAnd(addr, 127))

\* mutant: a sensor bus failure is reported as a register bus failure
sensor_writereg8_8_spi(c, reg, data) ==
    LET c1 == I2cWrite(c, OV2640_ADDR, <<BitAnd(reg, 255), BitAnd(data, 255)>>)
    IN  IF c1.hal THEN Ret(c1, Ok(Unit)) ELSE Ret(c1, Err("Spi"))

sensor_writereg8_8(c, reg, data) ==
    LET c1 == I2cWrite(c, OV2640_ADDR, <<BitAnd(reg, 255), BitAnd(data, 255)>>)
    IN  IF c1.hal THEN Ret(c1, Ok(Unit)) ELSE Ret(c1, Err("I2c"))

\* mutant: a failed sensor read is reported as a register bus failure
sensor_readreg8_8_spi(c, reg, n) ==
    LET c1 == I2cWriteRead(c, OV2640_ADDR, <<BitAnd(reg, 255)>>, n)
    IN  IF c1.hal THEN Ret(c1, Ok(c1.data)) ELSE Ret(c1, Err("Spi"))

sensor_readreg8_8(c, reg, n) ==
    LET c1 == I2cWriteRead(c, OV2640_ADDR, <<BitAnd(reg, 255)>>, n)
    IN  IF c1.hal THEN Ret(c1, Ok(c1.data)) ELSE Ret(c1, Err("I2c"))

\* mutant: the loop drops the Result of each write and goes on
RECURSIVE writeregs_from_continue(_, _, _)
writeregs_from_continue(c, regs, i) ==
    IF i > Len(regs) THEN Ret(c, Ok(Unit))
    ELSE writeregs_from_continue(
             sensor_writereg8_8(c, regs[i][1], regs[i][2]), regs, i + 1)

\* mutant: a failed write of a pair is issued once more before giving up
RECURSIVE writeregs_from_retry(_, _, _)
writeregs_from_retry(c, regs, i) ==
    IF i > Len(regs) THEN Ret(c, Ok(Unit))
    ELSE LET c1 == sensor_writereg8_8(c, regs[i][1], regs[i][2])
             c2 == IF c1.res.ok THEN c1
                   ELSE sensor_writereg8_8(c1, regs[i][1], regs[i][2])
         IN  IF ~c2.res.ok THEN c2 ELSE writeregs_from_retry(c2, regs, i + 1)

\* the loop of sensor_writeregs8_8, from the pair at index i on
RECURSIVE writeregs_from(_, _, _)
writeregs_from(c, regs, i) ==
    IF i > Len(regs) THEN Ret(c, Ok(Unit))
    ELSE LET c1 == sensor_writereg8_8(c, regs[i][1], regs[i][2])
         IN  IF ~c1.res.ok THEN c1 ELSE writeregs_from(c1, regs, i + 1)

sensor_writeregs8_8(c, regs) == writeregs_from(c, regs, 1)

flush_fifo(c) == arduchip_write_reg(c, ARDUCHIP_FIFO, FIFO_CLEAR_MASK)

start_fifo(c) == arduchip_write_reg(c, ARDUCHIP_FIFO, FIFO_START_MASK)

(* ------------------------------------------------------------------ *)
(* Public operations of Arducam, on a call in progress                  *)
(* ------------------------------------------------------------------ *)

\* mutant: a copied match arm sends the 160x120 table for 176x144 too
send_resolution_copied(c, res) ==
    CASE res = "Res160x120" -> sensor_writeregs8_8(c, OV2640_160x120_JPEG)
      [] res = "Res1024x768" -> sensor_writeregs8_8(c, OV2640_1024x768_JPEG)
      [] res = "Res1280x1024" -> sensor_writeregs8_8(c, OV2640_1280x1024_JPEG)
      [] res = "Res1600x1200" -> sensor_writeregs8_8(c, OV2640_1600x1200_JPEG)
      [] res = "Res176x144" -> sensor_writeregs8_8(c, OV2640_160x120_JPEG)
      [] res = "Res320x240" -> sensor_writeregs8_8(c, OV2640_320x240_JPEG)
      [] res = "Res352x288" -> sensor_writeregs8_8(c, OV2640_352x288_JPEG)
      [] res = "Res640x480" -> sensor_writeregs8_8(c, OV2640_640x480_JPEG)
      [] res = "Res800x600" -> sensor_writeregs8_8(c, OV2640_800x600_JPEG)

send_resolution(c, res) ==
    CASE res = "Res160x120" -> sensor_writeregs8_8(c, OV2640_160x120_JPEG)
      [] res = "Res1024x768" -> sensor_writeregs8_8(c, OV2640_1024x768_JPEG)
      [] res = "Res1280x1024" -> sensor_writeregs8_8(c, OV2640_1280x1024_JPEG)
      [] res = "Res1600x1200" -> sensor_writeregs8_8(c, OV2640_1600x1200_JPEG)
      [] res = "Res176x144" -> sensor_writeregs8_8(c, OV2640_176x144_JPEG)
      [] res = "Res320x240" -> sensor_writeregs8_8(c, OV2640_320x240_JPEG)
      [] res = "Res352x288" -> sensor_writeregs8_8(c, OV2640_352x288_JPEG)
      [] res = "Res640x480" -> sensor_writeregs8_8(c, OV2640_640x480_JPEG)
      [] res = "Res800x600" -> sensor_writeregs8_8(c, OV2640_800x600_JPEG)

\* mutant: the format table is written before the color-space table
init_tables_swapped(c, res) ==
    LET c1 == sensor_writeregs8_8(c, OV2640_JPEG_INIT) IN
    IF ~c1.res.ok THEN c1 ELSE
    LET c2 == sensor_writeregs8_8(c1, OV2640_JPEG) IN
    IF ~c2.res.ok THEN c2 ELSE
    LET c3 == sensor_writeregs8_8(c2, OV2640_YUV422) IN
    IF ~c3.res.ok THEN c3 ELSE
    LET c4 == sensor_writereg8_8(c3, 255, 1) IN
    IF ~c4.res.ok THEN c4 ELSE
    LET c5 == sensor_writereg8_8(c4, 21, 0) IN
    IF ~c5.res.ok THEN c5 ELSE
    LET c6 == send_resolution(c5, res) IN
    IF ~c6.res.ok THEN c6 ELSE
    Ret(c6, Ok(Unit))

\* init, from the three table writes on (lines 150..162)
init_tables(c, res) ==
    LET c1 == sensor_writeregs8_8(c, OV2640_JPEG_INIT) IN
    IF ~c1.res.ok THEN c1 ELSE
    LET c2 == sensor_writeregs8_8(c1, OV2640_YUV422) IN
    IF ~c2.res.ok THEN c2 ELSE
    LET c3 == sensor_writeregs8_8(c2, OV2640_JPEG) IN
    IF ~c3.res.ok THEN c3 ELSE
    LET c4 == sensor_writereg8_8(c3, 255, 1) IN
    IF ~c4.res.ok THEN c4 ELSE
    LET c5 == sensor_writereg8_8(c4, 21, 0) IN
    IF ~c5.res.ok THEN c5 ELSE
    LET c6 == send_resolution(c5, res) IN
    IF ~c6.res.ok THEN c6 ELSE
    Ret(c6, Ok(Unit))

\* mutant: only the two register bus writes are followed by a delay
init_two_delays(c, res) ==
    LET c1 == arduchip_write_reg(c, 7, 128) IN
    IF ~c1.res.ok THEN c1 ELSE
    LET c2 == arduchip_write_reg(DelayMs(c1, 100), 7, 0) IN
    IF ~c2.res.ok THEN c2 ELSE
    LET c3 == sensor_writereg8_8(DelayMs(c2, 100), 255, 1) IN
    IF ~c3.res.ok THEN c3 ELSE
    LET c4 == sensor_writereg8_8(c3, 18, 128) IN
    IF ~c4.res.ok THEN c4 ELSE
    init_tables(c4, res)

init(c, res) ==
    LET c1 == arduchip_write_reg(c, 7, 128) IN
    IF ~c1.res.ok THEN c1 ELSE
    LET c2 == arduchip_write_reg(DelayMs(c1, 100), 7, 0) IN
    IF ~c2.res.ok THEN c2 ELSE
    LET c3 == sensor_writereg8_8(DelayMs(c2, 100), 255, 1) IN
    IF ~c3.res.ok THEN c3 ELSE
    LET c4 == sensor_writereg8_8(DelayMs(c3, 100), 18, 128) IN
    IF ~c4.res.ok THEN c4 ELSE
    init_tables(DelayMs(c4, 100), res)

\* mutant: the format table is sent again before the resolution table
set_resolution_reformat(c, res) ==
    LET c0 == sensor_writeregs8_8(c, OV2640_JPEG) IN
    IF ~c0.res.ok THEN c0 ELSE
    LET c1 == send_resolution(c0, res) IN
    IF ~c1.res.ok THEN c1 ELSE
    Ret(c1, Ok(Unit))

\* the resolution is stored by the action; this is the rest of the body
set_resolution(c, res) ==
    LET c1 == send_resolution(c, res) IN
    IF ~c1.res.ok THEN c1 ELSE
    Ret(c1, Ok(Unit))

\* mutant: the low identity register is read first
get_sensor_chipid_swapped(c) ==
    LET c1 == sensor_writereg8_8(c, 255, 1) IN
    IF ~c1.res.ok THEN c1 ELSE
    LET c2 == sensor_readreg8_8(c1, OV2640_CHIPID_LOW, 1) IN
    IF ~c2.res.ok THEN c2 ELSE
    LET c3 == sensor_readreg8_8(c2, OV2640_CHIPID_HIGH, 1) IN
    IF ~c3.res.ok THEN c3 ELSE
    Ret(c3, Ok(c2.res.val \o c3.res.val))

get_sensor_chipid(c) ==
    LET c1 == sensor_writereg8_8(c, 255, 1) IN
    IF ~c1.res.ok THEN c1 ELSE
    LET c2 == sensor_readreg8_8(c1, OV2640_CHIPID_HIGH, 1) IN
    IF ~c2.res.ok THEN c2 ELSE
    LET c3 == sensor_readreg8_8(c2, OV2640_CHIPID_LOW, 1) IN
    IF ~c3.res.ok THEN c3 ELSE
    Ret(c3, Ok(c2.res.val \o c3.res.val))

\* the condition of the if of is_connected: && binds tighter than ||
connected_test(test_value, readback, chipid) ==
    (test_value = readback /\ chipid = <<38, 65>>) \/ chipid = <<38, 66>>

is_connected(c) ==
    LET test_value == 82
        c1 == arduchip_write_reg(c, ARDUCHIP_TEST1, test_value) IN
    IF ~c1.res.ok THEN c1 ELSE
    LET c2 == arduchip_read_reg(c1, ARDUCHIP_TEST1) IN
    IF ~c2.res.ok THEN c2 ELSE
    LET c3 == get_sensor_chipid(c2) IN
    IF ~c3.res.ok THEN c3 ELSE
    IF connected_test(test_value, c2.res.val, c3.res.val)
    THEN Ret(c3, Ok(TRUE))
    ELSE Ret(c3, Ok(FALSE))

\* mutant: the trigger is written before the buffer is cleared
start_capture_swapped(c) ==
    LET c1 == start_fifo(c) IN
    IF ~c1.res.ok THEN c1 ELSE
    LET c2 == flush_fifo(c1) IN
    IF ~c2.res.ok THEN c2 ELSE
    Ret(c2, Ok(Unit))

\* mutant: the Result of the buffer-clear is dropped
start_capture_ignore(c) ==
    LET c1 == flush_fifo(c)
        c2 == start_fifo(c1) IN
    IF ~c2.res.ok THEN c2 ELSE
    Ret(c2, Ok(Unit))

start_capture(c) ==
    LET c1 == flush_fifo(c) IN
    IF ~c1.res.ok THEN c1 ELSE
    LET c2 == start_fifo(c1) IN
    IF ~c2.res.ok THEN c2 ELSE
    Ret(c2, Ok(Unit))

\* mutant: the register is compared with the mask instead of masked by it
is_capture_done_ge(c) ==
    LET c1 == arduchip_read_reg(c, ARDUCHIP_TRIG) IN
    IF ~c1.res.ok THEN c1 ELSE
    Ret(c1, Ok(c1.res.val >= CAP_DONE_MASK))

is_capture_done(c) ==
    LET c1 == arduchip_read_reg(c, ARDUCHIP_TRIG) IN
    IF ~c1.res.ok THEN c1 ELSE
    Ret(c1, Ok(BitAnd(c1.res.val, CAP_DONE_MASK) # 0))

\* mutant: the buffer is not cleared after the burst read
read_captured_image_noflush(c, len) ==
    LET c0 == SpiTransaction(c, <<WriteOp(<<FIFO_BURST>>), ReadOp(len)>>, len)
        c1 == IF c0.hal THEN Ret(c0, Ok(Unit)) ELSE Ret(c0, Err("Spi")) IN
    IF ~c1.res.ok THEN c1 ELSE
    Ret(c1, Ok(Unit))

\* mutant: the buffer is cleared before the burst read, not after it
read_captured_image_flushfirst(c, len) ==
    LET c2 == flush_fifo(c) IN
    IF ~c2.res.ok THEN c2 ELSE
    LET c0 == SpiTransaction(c2, <<WriteOp(<<FIFO_BURST>>), ReadOp(len)>>, len)
        c1 == IF c0.hal THEN Ret(c0, Ok(Unit)) ELSE Ret(c0, Err("Spi")) IN
    IF ~c1.res.ok THEN c1 ELSE
    Ret(c1, Ok(Unit))

\* mutant: the buffer is cleared whether or not the burst read succeeded
read_captured_image_alwaysflush(c, len) ==
    LET c0 == SpiTransaction(c, <<WriteOp(<<FIFO_BURST>>), ReadOp(len)>>, len)
        c1 == IF c0.hal THEN Ret(c0, Ok(Unit)) ELSE Ret(c0, Err("Spi"))
        c2 == flush_fifo(c1) IN
    IF ~c1.res.ok THEN Ret(c2, c1.res) ELSE
    IF ~c2.res.ok THEN c2 ELSE
    Ret(c2, Ok(Unit))

\* len is the length of the caller's slice out
read_captured_image(c, len) ==
    LET c0 == SpiTransaction(c, <<WriteOp(<<FIFO_BURST>>), ReadOp(len)>>, len)
        c1 == IF c0.hal THEN Ret(c0, Ok(Unit)) ELSE Ret(c0, Err("Spi")) IN
    IF ~c1.res.ok THEN c1 ELSE
    LET c2 == flush_fifo(c1) IN
    IF ~c2.res.ok THEN c2 ELSE
    Ret(c2, Ok(Unit))

\* mutant: the middle and the high byte are shifted to each other's place
fifo_length_swapped(b0, b1, b2) ==
    BitAnd(BitOr(BitOr(Shl32(b2, 8), Shl32(b1, 16)), b0), 8388607)

\* the u32 expression of line 226
fifo_length(b0, b1, b2) ==
    BitAnd(BitOr(BitOr(Shl32(b2, 16), Shl32(b1, 8)), b0), 8388607)

\* mutant: the length registers are read from the high one down
get_fifo_length_downwards(c) ==
    LET c3 == arduchip_read_reg(c, FIFO_SIZE3) IN
    IF ~c3.res.ok THEN c3 ELSE
    LET c2 == arduchip_read_reg(c3, FIFO_SIZE2) IN
    IF ~c2.res.ok THEN c2 ELSE
    LET c1 == arduchip_read_reg(c2, FIFO_SIZE1) IN
    IF ~c1.res.ok THEN c1 ELSE
    Ret(c1, Ok(fifo_length(c1.res.val, c2.res.val, BitAnd(c3.res.val, 127))))

get_fifo_length(c) ==
    LET c1 == arduchip_read_reg(c, FIFO_SIZE1) IN
    IF ~c1.res.ok THEN c1 ELSE
    LET c2 == arduchip_read_reg(c1, FIFO_SIZE2) IN
    IF ~c2.res.ok THEN c2 ELSE
    LET c3 == arduchip_read_reg(c2, FIFO_SIZE3) IN
    IF ~c3.res.ok THEN c3 ELSE
    Ret(c3, Ok(fifo_length(c1.res.val, c2.res.val, BitAnd(c3.res.val, 127))))

(* ------------------------------------------------------------------ *)
(* The FIFO chip: the capture state its commands leave it in            *)
(* ------------------------------------------------------------------ *)

CaptureStates == {"Idle", "Capturing", "Done"}

\* the capture state after the event e: a buffer-clear that arrived makes
\* the chip idle, a start-trigger that arrived starts a capture
FifoCommand(s, e) ==
    IF /\ e.bus = "spi" /\ e.ok /\ Len(e.ops) = 2
       /\ e.ops[1].t = "W" /\ e.ops[2].t = "W"
       /\ e.ops[1].bytes = <<BitOr(ARDUCHIP_FIFO, WRITE_FLAG)>>
    THEN CASE e.ops[2].bytes = <<FIFO_CLEAR_MASK>> -> "Idle"
           [] e.ops[2].bytes = <<FIFO_START_MASK>> -> "Capturing"
           [] OTHER -> s
    ELSE s

\* the capture state after the events i.. of the trace tr
RECURSIVE CaptureAfter(_, _, _)
CaptureAfter(s, tr, i) ==
    IF i > Len(tr) THEN s
    ELSE CaptureAfter(FifoCommand(s, tr[i]), tr, i + 1)

(* ------------------------------------------------------------------ *)
(* Inputs: the scripts of the buses                                     *)
(* ------------------------------------------------------------------ *)

\* the most transactions one call issues (init: 2 + 4 + four tables)
MaxTx == 6 + 4 * TableLen

\* which transactions of a call fail, by their position 1..n in the call:
\* none, a single one (a transient fault), or all of them (a bus that is down)
Faults(n) == {{}} \cup {{k} : k \in 1..n} \cup {1..n}

Script(faults, rx) == [faults |-> faults, rx |-> rx]

\* bytes a device returns, for the runs over all operations
PollBytes == {0, 8}
ScratchBytes == {82, 0}
ChipHighBytes == {38}
ChipLowBytes == {65, 66, 0}
LenBytes == {16, 255}

\* bytes a device returns, for the runs over one decoding function
ByteSamples == {0, 1, 128, 255}
HighSamples == {0, 1, 2, 64, 126, 127, 128, 129, 130, 192, 254, 255}
ChipSamples == {0, 38, 65, 66, 82, 255}

(* ------------------------------------------------------------------ *)
(* State machine: one action per public operation                       *)
(* ------------------------------------------------------------------ *)

\* Arducam::new: any resolution, the one format; nothing is sent
Init ==
    /\ resolution \in Resolutions
    /\ format \in ImageFormats
    /\ call = [op |-> "new", arg |-> 0, rx |-> <<>>]
    /\ trace = <<>>
    /\ result = Ok(Unit)
    /\ capture = "Idle"

\* the call op(arg) returns: the bytes the devices delivered to it, what it
\* issued and its Result are left behind
Finish(op, arg, c) ==
    /\ call' = [op |-> op, arg |-> arg, rx |-> [j \in 1..c.r |-> RxByte(c.bus, j)]]
    /\ trace' = c.trace
    /\ result' = c.res
    /\ capture' = CaptureAfter(capture, c.trace, 1)

DoInit(F) ==
    \E f \in F :
        /\ Finish("init", 0, init(NewCall(Script(f, <<>>)), resolution))
        /\ UNCHANGED <<resolution, format>>

\* mutant: the resolution is stored only when the table was sent
DoSetResolution_atomic(F) ==
    \E r \in Resolutions, f \in F :
        LET c == set_resolution(NewCall(Script(f, <<>>)), r) IN
        /\ resolution' = IF c.res.ok THEN r ELSE resolution
        /\ Finish("set_resolution", r, c)
        /\ UNCHANGED format

DoSetResolution(F) ==
    \E r \in Resolutions, f \in F :
        /\ resolution' = r
        /\ Finish("set_resolution", r,
                  set_resolution(NewCall(Script(f, <<>>)), r))
        /\ UNCHANGED format

DoIsConnected(F, RB, HI, LO) ==
    \E f \in F, rb \in RB, hi \in HI, lo \in LO :
        /\ Finish("is_connected", 0,
                  is_connected(NewCall(Script(f, <<rb, hi, lo>>))))
        /\ UNCHANGED <<resolution, format>>

DoStartCapture(F) ==
    \E f \in F :
        /\ Finish("start_capture", 0, start_capture(NewCall(Script(f, <<>>))))
        /\ UNCHANGED <<resolution, format>>

DoIsCaptureDone(F, V) ==
    \E f \in F, v \in V :
        /\ Finish("is_capture_done", 0,
                  is_capture_done(NewCall(Script(f, <<v>>))))
        /\ UNCHANGED <<resolution, format>>

DoReadCapturedImage(F) ==
    \E f \in F, len \in 0..MaxBuf :
        /\ Finish("read_captured_image", len,
                  read_captured_image(NewCall(Script(f, <<>>)), len))
        /\ UNCHANGED <<resolution, format>>

DoGetFifoLength(F, B0, B1, B2) ==
    \E f \in F, b0 \in B0, b1 \in B1, b2 \in B2 :
        /\ Finish("get_fifo_length", 0,
                  get_fifo_length(NewCall(Script(f, <<b0, b1, b2>>))))
        /\ UNCHANGED <<resolution, format>>

DoGetSensorChipid(F, HI, LO) ==
    \E f \in F, hi \in HI, lo \in LO :
        /\ Finish("get_sensor_chipid", 0,
                  get_sensor_chipid(NewCall(Script(f, <<hi, lo>>))))
        /\ UNCHANGED <<resolution, format>>

\* the two framing functions of the register bus adapter, called alone
DoArduchipWriteReg(F, A, D) ==
    \E f \in F, addr \in A, data \in D :
        /\ Finish("arduchip_write_reg", addr,
                  arduchip_write_reg(NewCall(Script(f, <<>>)), addr, data))
        /\ UNCHANGED <<resolution, format>>

DoArduchipReadReg(F, A, V) ==
    \E f \in F, addr \in A, v \in V :
        /\ Finish("arduchip_read_reg", addr,
                  arduchip_read_reg(NewCall(Script(f, <<v>>)), addr))
        /\ UNCHANGED <<resolution, format>>

\* the FIFO chip finishes the capture it was triggered for; no call of the
\* driver is involved, and the step is recorded as the last one taken
CaptureCompletes ==
    /\ capture = "Capturing"
    /\ capture' = "Done"
    /\ call' = [op |-> "capture_completes", arg |-> 0, rx |-> <<>>]
    /\ trace' = <<>>
    /\ result' = Ok(Unit)
    /\ UNCHANGED <<resolution, format>>

Next ==
    \/ DoInit(Faults(MaxTx))
    \/ DoSetResolution(Faults(TableLen + 1))
    \/ DoIsConnected(Faults(6), ScratchBytes, ChipHighBytes, ChipLowBytes)
    \/ DoStartCapture(Faults(3))
    \/ DoIsCaptureDone(Faults(2), PollBytes)
    \/ DoReadCapturedImage(Faults(3))
    \/ DoGetFifoLength(Faults(4), LenBytes, LenBytes, LenBytes)
    \/ DoGetSensorChipid(Faults(4), ChipHighBytes, ChipLowBytes)
    \/ CaptureCompletes

Spec == Init /\ [][Next]_vars

\* the construction of the crate's example: Res320x240, JPEG
InitExample == Init /\ resolution = "Res320x240"

\* is_capture_done over every byte of the trigger register
NextDone == DoIsCaptureDone(Faults(1), Byte)

SpecDone == InitExample /\ [][NextDone]_vars

\* get_fifo_length over the sampled bytes of the three length registers
NextLength == DoGetFifoLength(Faults(1), ByteSamples, ByteSamples, HighSamples)

SpecLength == InitExample /\ [][NextLength]_vars

\* is_connected over the sampled scratch and chip identity bytes
NextConnected == DoIsConnected(Faults(1), ChipSamples, ChipSamples, ChipSamples)

SpecConnected == InitExample /\ [][NextConnected]_vars

\* the register bus: its two framing functions over every logical address,
\* and the public operations that use it
NextBus ==
    \/ DoArduchipWriteReg(Faults(0), Byte, {FIFO_CLEAR_MASK})
    \/ DoArduchipReadReg(Faults(0), Byte, {CAP_DONE_MASK})
    \/ DoInit(Faults(0))
    \/ DoIsConnected(Faults(0), ScratchBytes, ChipHighBytes, ChipLowBytes)
    \/ DoStartCapture(Faults(0))
    \/ DoIsCaptureDone(Faults(0), PollBytes)
    \/ DoReadCapturedImage(Faults(0))
    \/ DoGetFifoLength(Faults(0), LenBytes, LenBytes, LenBytes)

SpecBus == InitExample /\ [][NextBus]_vars

(* ------------------------------------------------------------------ *)
(* Properties                                                           *)
(* ------------------------------------------------------------------ *)

\* a register bus transaction of two one-byte writes: address byte, value
ExpRegWrite(a, d, ok) ==
    [bus |-> "spi", dev |-> 0, ms |-> 0, ok |-> ok,
     ops |-> <<[t |-> "W", bytes |-> <<a>>, n |-> 1],
               [t |-> "W", bytes |-> <<d>>, n |-> 1]>>]

\* a register bus transaction of a one-byte write and a read of n bytes
ExpRegRead(a, n, ok) ==
    [bus |-> "spi", dev |-> 0, ms |-> 0, ok |-> ok,
     ops |-> <<[t |-> "W", bytes |-> <<a>>, n |-> 1],
               [t |-> "R", bytes |-> <<>>, n |-> n]>>]

\* a sensor bus write of the pair (register, value) to the sensor's address
ExpSensorWrite(reg, d, ok) ==
    [bus |-> "i2c", dev |-> 48, ms |-> 0, ok |-> ok,
     ops |-> <<[t |-> "W", bytes |-> <<reg, d>>, n |-> 2]>>]

IsTx(e) == e.bus # "delay"

\* the bus transactions of a trace, without the delays
BusEvents(tr) == SelectSeq(tr, IsTx)

\* C1: start_capture writes buffer-clear (0x84, 0x01) first; when both
\* writes succeed the trace is exactly buffer-clear then start-trigger
\* (0x84, 0x02); a failed buffer-clear is the only transaction and the call
\* returns Error::Spi; nothing goes to the sensor bus.
C1_StartCapture ==
    call.op = "start_capture" =>
        /\ Len(trace) >= 1
        /\ trace[1] = ExpRegWrite(132, 1, trace[1].ok)
        /\ result.ok =>
              trace = <<ExpRegWrite(132, 1, TRUE), ExpRegWrite(132, 2, TRUE)>>
        /\ ~trace[1].ok =>
              Len(trace) = 1 /\ ~result.ok /\ result.err = "Spi"
        /\ \A i \in 1..Len(trace) : trace[i].bus = "spi"

C1_Witness ==
    /\ call.op = "start_capture"
    /\ result.ok
    /\ Len(trace) = 2

\* C2: a successful is_capture_done returns TRUE exactly when bit 3 of the
\* byte read from the trigger register is set, for every byte 0..255.
C2_CaptureDoneBit3 ==
    (call.op = "is_capture_done" /\ result.ok) =>
        /\ Len(call.rx) = 1
        /\ result.val = ((call.rx[1] \div 8) % 2 = 1)

C2_Witness ==
    /\ call.op = "is_capture_done"
    /\ result.ok
    /\ call.rx = <<247>>
    /\ result.val = FALSE

\* C3: a successful get_fifo_length of the register bytes (low, mid, high)
\* returns (high mod 128) * 65536 + mid * 256 + low, which is at most
\* 0x7FFFFF and does not depend on bit 7 of high.
C3_FifoLength ==
    (call.op = "get_fifo_length" /\ result.ok) =>
        /\ Len(call.rx) = 3
        /\ result.val =
              (call.rx[3] % 128) * 65536 + call.rx[2] * 256 + call.rx[1]
        /\ result.val <= 8388607

C3_Witness ==
    /\ call.op = "get_fifo_length"
    /\ result.ok
    /\ call.rx = <<255, 255, 255>>
    /\ result.val = 8388607

\* C4: a successful read_captured_image into a buffer of N bytes issues
\* exactly the burst transaction (write 0x3C, read N bytes) and then the
\* buffer-clear write (0x84, 0x01), for every N including 0.
C4_ReadCapturedImage ==
    (call.op = "read_captured_image" /\ result.ok) =>
        trace = <<ExpRegRead(60, call.arg, TRUE), ExpRegWrite(132, 1, TRUE)>>

C4_Witness ==
    /\ call.op = "read_captured_image"
    /\ result.ok
    /\ call.arg = 0
    /\ Len(trace) = 2

\* a write-write transaction of the register bus
IsRegWrite(e) ==
    e.bus = "spi" /\ Len(e.ops) = 2 /\ e.ops[1].t = "W" /\ e.ops[2].t = "W"

\* a write-read transaction of the register bus
IsRegRead(e) ==
    e.bus = "spi" /\ Len(e.ops) = 2 /\ e.ops[1].t = "W" /\ e.ops[2].t = "R"

\* C5: every write-write transaction of the register bus carries an
\* address byte with bit 0x80 set and every write-read transaction one with
\* bit 0x80 cleared; the framing functions send the logical address a as
\* 128 + a mod 128 for a write and as a mod 128 for a read, for a in 0..255.
C5_WriteFlag ==
    /\ \A i \in 1..Len(trace) :
          /\ IsRegWrite(trace[i]) => trace[i].ops[1].bytes[1] \in 128..255
          /\ IsRegRead(trace[i]) => trace[i].ops[1].bytes[1] \in 0..127
    /\ call.op = "arduchip_write_reg" =>
          trace = <<ExpRegWrite(128 + (call.arg % 128), 1, TRUE)>>
    /\ call.op = "arduchip_read_reg" =>
          trace = <<ExpRegRead(call.arg % 128, 1, TRUE)>>

C5_Witness ==
    /\ call.op = "arduchip_read_reg"
    /\ call.arg = 132
    /\ trace = <<ExpRegRead(4, 1, TRUE)>>

\* C6: a successful is_connected returns TRUE exactly when the scratch
\* readback is 0x52 and the chip identity is [0x26,0x41] or [0x26,0x42].
C6_Connected ==
    (call.op = "is_connected" /\ result.ok) =>
        /\ Len(call.rx) = 3
        /\ result.val =
              (/\ call.rx[1] = 82
               /\ <<call.rx[2], call.rx[3]>> \in {<<38, 65>>, <<38, 66>>})

\* the successful writes of the pairs of a table, in table order
TableWrites(tab) ==
    [i \in 1..Len(tab) |-> ExpSensorWrite(tab[i][1], tab[i][2], TRUE)]

\* the table that belongs to a resolution
TableOf(r) ==
    CASE r = "Res160x120" -> OV2640_160x120_JPEG
      [] r = "Res176x144" -> OV2640_176x144_JPEG
      [] r = "Res320x240" -> OV2640_320x240_JPEG
      [] r = "Res352x288" -> OV2640_352x288_JPEG
      [] r = "Res640x480" -> OV2640_640x480_JPEG
      [] r = "Res800x600" -> OV2640_800x600_JPEG
      [] r = "Res1024x768" -> OV2640_1024x768_JPEG
      [] r = "Res1280x1024" -> OV2640_1280x1024_JPEG
      [] r = "Res1600x1200" -> OV2640_1600x1200_JPEG

AllOk(tr) == \A i \in 1..Len(tr) : tr[i].ok

\* C7: when no transaction of init fails, init returns Ok and its bus
\* transactions are, in order: (0x87,0x80) and (0x87,0x00) on the register
\* bus, then on the sensor bus (0xFF,0x01), (0x12,0x80), the bootstrap
\* table, the color-space table, the format table, (0xFF,0x01),
\* (0x15,0x00) and the table of the stored resolution.
C7_InitOrder ==
    (call.op = "init" /\ AllOk(trace)) =>
        /\ result.ok
        /\ BusEvents(trace) =
              <<ExpRegWrite(135, 128, TRUE), ExpRegWrite(135, 0, TRUE),
                ExpSensorWrite(255, 1, TRUE), ExpSensorWrite(18, 128, TRUE)>>
              \o TableWrites(OV2640_JPEG_INIT)
              \o TableWrites(OV2640_YUV422)
              \o TableWrites(OV2640_JPEG)
              \o <<ExpSensorWrite(255, 1, TRUE), ExpSensorWrite(21, 0, TRUE)>>
              \o TableWrites(TableOf(resolution))

C7_Witness ==
    /\ call.op = "init"
    /\ result.ok
    /\ resolution = "Res1024x768"
    /\ Len(BusEvents(trace)) = MaxTx

\* C8: in every call a failed transaction is the last event of the call
\* (no transaction and no delay follows it, so it is not issued again and
\* no second one fails), and the call returns an error exactly when one
\* of its transactions failed.
C8_AbortOnFirstFailure ==
    /\ \A i \in 1..Len(trace) : ~trace[i].ok => i = Len(trace)
    /\ result.ok <=> AllOk(trace)

C8_Witness ==
    /\ call.op = "init"
    /\ ~result.ok
    /\ Len(BusEvents(trace)) = 7
    /\ ~trace[Len(trace)].ok

\* the 3rd bus transaction of the call is there and failed
ThirdFailed == Len(BusEvents(trace)) >= 3 /\ ~BusEvents(trace)[3].ok

\* C9 as stated: when the 3rd transaction of init fails, init returns
\* Error::Spi and the transaction count stops at 3.
C9_Original ==
    (call.op = "init" /\ ThirdFailed) =>
        /\ ~result.ok /\ result.err = "Spi"
        /\ Len(BusEvents(trace)) = 3

\* C9 amended: init issues only its first two transactions on the register
\* bus; when its 3rd transaction fails, which is the sensor bus write
\* (0xFF,0x01), init returns Error::I2c and the transaction count stops at 3.
C9_Amended ==
    call.op = "init" =>
        /\ \A i \in 1..Len(BusEvents(trace)) :
              BusEvents(trace)[i].bus = "spi" <=> i <= 2
        /\ ThirdFailed =>
              /\ BusEvents(trace)[3] = ExpSensorWrite(255, 1, FALSE)
              /\ ~result.ok /\ result.err = "I2c"
              /\ Len(BusEvents(trace)) = 3

C9_Witness ==
    /\ call.op = "init"
    /\ ThirdFailed
    /\ ~result.ok

\* C10: an error has the kind of the bus of the failed transaction, Spi
\* for the register bus and I2c for the sensor bus; no call returns Pin or
\* OutOfBounds.
C10_ErrorKinds ==
    /\ result.err \in {"none", "Spi", "I2c"}
    /\ result.ok <=> result.err = "none"
    /\ ~result.ok =>
          /\ Len(trace) >= 1
          /\ ~trace[Len(trace)].ok
          /\ result.err = "Spi" <=> trace[Len(trace)].bus = "spi"
          /\ result.err = "I2c" <=> trace[Len(trace)].bus = "i2c"

C10_Witness ==
    /\ call.op = "is_connected"
    /\ ~result.ok
    /\ result.err = "I2c"
    /\ Len(trace) = 5

\* a sensor bus write of a register byte followed by a read of n bytes
ExpSensorRead(reg, n, ok) ==
    [bus |-> "i2c", dev |-> 48, ms |-> 0, ok |-> ok,
     ops |-> <<[t |-> "W", bytes |-> <<reg>>, n |-> 1],
               [t |-> "R", bytes |-> <<>>, n |-> n]>>]

\* C11: is_capture_done issues one register bus read of 0x41 and nothing
\* else; get_fifo_length issues register bus reads of 0x42, 0x43, 0x44 in
\* this order (all three when it succeeds) and nothing else; from every
\* capture state, neither changes the resolution, the format or the
\* capture state.
C11_PurePolls ==
    [][/\ call'.op = "is_capture_done" =>
            /\ trace' = <<ExpRegRead(65, 1, result'.ok)>>
            /\ <<resolution', format', capture'>> =
                 <<resolution, format, capture>>
       /\ call'.op = "get_fifo_length" =>
            /\ Len(trace') \in 1..3
            /\ \A i \in 1..Len(trace') :
                  trace'[i] = ExpRegRead(65 + i, 1, trace'[i].ok)
            /\ result'.ok => Len(trace') = 3
            /\ <<resolution', format', capture'>> =
                 <<resolution, format, capture>>]_vars

C11_Witness ==
    /\ call.op = "get_fifo_length"
    /\ result.ok
    /\ Len(trace) = 3
    /\ capture = "Done"

\* C12: a successful set_resolution writes exactly the pairs of the table
\* of the stored resolution, and its writes are those of the table of no
\* other of the nine resolutions.
C12_Dispatch ==
    (call.op = "set_resolution" /\ result.ok) =>
        /\ resolution \in Resolutions
        /\ trace = TableWrites(TableOf(resolution))
        /\ \A r \in Resolutions \ {resolution} :
              trace # TableWrites(TableOf(r))

C12_Witness ==
    /\ call.op = "set_resolution"
    /\ result.ok
    /\ resolution = "Res176x144"
    /\ trace = TableWrites(OV2640_176x144_JPEG)

\* the writes of the first m pairs of a table, with the flags of tr
TablePrefix(tab, tr) ==
    [i \in 1..Len(tr) |-> ExpSensorWrite(tab[i][1], tab[i][2], tr[i].ok)]

\* C13: set_resolution(r) stores r and issues only sensor bus writes of
\* the pairs of r's table, in table order: no register bus transaction,
\* no delay, no other sensor write; the format is left unchanged.
C13_SetResolutionOnly ==
    [][call'.op = "set_resolution" =>
         /\ resolution' = call'.arg
         /\ format' = format
         /\ Len(trace') <= Len(TableOf(call'.arg))
         /\ trace' = TablePrefix(TableOf(call'.arg), trace')
         /\ result'.ok => Len(trace') = Len(TableOf(call'.arg))]_vars

C13_Witness ==
    /\ call.op = "set_resolution"
    /\ call.arg = "Res800x600"
    /\ resolution = "Res800x600"
    /\ result.ok
    /\ trace = TableWrites(OV2640_800x600_JPEG)

\* C14 as stated: a delay is requested only by init, only after a register
\* bus write of the reset pulse, never after a sensor bus transaction.
C14_Original ==
    \A i \in 1..Len(trace) :
        trace[i].bus = "delay" =>
            /\ call.op = "init"
            /\ i > 1
            /\ trace[i - 1].bus = "spi"

\* C14 amended: a delay is requested only by init, 100 ms after each of its
\* first four transactions when it succeeded: the two register bus writes
\* of the reset pulse and the sensor bus writes (0xFF,0x01) and
\* (0x12,0x80); no delay follows any later transaction.
C14_Amended ==
    \A i \in 1..Len(trace) :
        /\ trace[i].bus = "delay" <=> (call.op = "init" /\ i \in {2, 4, 6, 8})
        /\ trace[i].bus = "delay" => trace[i].ms = 100 /\ trace[i - 1].ok

C14_Witness ==
    /\ call.op = "init"
    /\ Len(trace) >= 8
    /\ trace[7] = ExpSensorWrite(18, 128, TRUE)
    /\ trace[8].bus = "delay"

\* C15: get_sensor_chipid issues only sensor bus transactions, in order the
\* write (0xFF,0x01), the read of one byte from 0x0A and the read of one
\* byte from 0x0B; when it succeeds it issued all three and returns
\* [byte read from 0x0A, byte read from 0x0B].
C15_ChipId ==
    call.op = "get_sensor_chipid" =>
        /\ Len(trace) \in 1..3
        /\ trace[1] = ExpSensorWrite(255, 1, trace[1].ok)
        /\ Len(trace) >= 2 => trace[2] = ExpSensorRead(10, 1, trace[2].ok)
        /\ Len(trace) >= 3 => trace[3] = ExpSensorRead(11, 1, trace[3].ok)
        /\ result.ok =>
              /\ Len(trace) = 3
              /\ Len(call.rx) = 2
              /\ result.val = <<call.rx[1], call.rx[2]>>

C15_Witness ==
    /\ call.op = "get_sensor_chipid"
    /\ result.ok
    /\ result.val = <<38, 66>>

\* C16: from every capture state, a successful read_captured_image has the
\* buffer-clear write as its last transaction and leaves the capture state
\* Idle; the call fails only when one of its bus transactions failed, never
\* because of the capture state it was called in.
C16_ReadResets ==
    [][call'.op = "read_captured_image" =>
         /\ capture \in CaptureStates
         /\ result'.ok <=> (Len(trace') = 2 /\ AllOk(trace'))
         /\ result'.ok =>
               /\ trace'[Len(trace')] = ExpRegWrite(132, 1, TRUE)
               /\ capture' = "Idle"]_vars

C16_Witness ==
    /\ call.op = "read_captured_image"
    /\ result.ok
    /\ trace[2] = ExpRegWrite(132, 1, TRUE)
    /\ capture = "Idle"

\* C17: set_resolution writes the pairs of its table of n pairs one per
\* sensor bus transaction in table order; when the write of the pair at
\* 1-based index m is the first to fail, exactly m writes were attempted,
\* the writes before it succeeded and are not undone, no later pair is
\* written and Error::I2c is returned; when none fails exactly n writes
\* are issued and the call succeeds.
C17_TableStops ==
    call.op = "set_resolution" =>
        LET tab == TableOf(call.arg)
            m == Len(trace)
        IN  /\ m \in 1..Len(tab)
            /\ trace = TablePrefix(tab, trace)
            /\ \A i \in 1..(m - 1) : trace[i].ok
            /\ result.ok <=> (m = Len(tab) /\ trace[m].ok)
            /\ ~result.ok => (result.err = "I2c" /\ ~trace[m].ok)

C17_Witness ==
    /\ call.op = "set_resolution"
    /\ ~result.ok
    /\ Len(trace) < Len(TableOf(call.arg))
    /\ ~trace[Len(trace)].ok

\* a write of the start mask to the FIFO control register, failed or not
IsStartTrigger(e) ==
    /\ IsRegWrite(e)
    /\ e.ops[1].bytes = <<132>>
    /\ e.ops[2].bytes = <<2>>

\* C18: every start-trigger write is the transaction right after a
\* successful buffer-clear write of the same call, for every pattern of
\* bus failures.
C18_ClearBeforeStart ==
    \A i \in 1..Len(trace) :
        IsStartTrigger(trace[i]) =>
            /\ i >= 2
            /\ trace[i - 1] = ExpRegWrite(132, 1, TRUE)

C18_Witness ==
    /\ call.op = "start_capture"
    /\ Len(trace) = 2
    /\ IsStartTrigger(trace[2])
    /\ ~trace[2].ok

\* C19: when the burst transaction of read_captured_image fails, it is the
\* only transaction of the call, the call returns Error::Spi, and the
\* capture state is the one before the call.
C19_BurstFailure ==
    [][(call'.op = "read_captured_image" /\ ~trace'[1].ok) =>
         /\ trace' = <<ExpRegRead(60, call'.arg, FALSE)>>
         /\ ~result'.ok
         /\ result'.err = "Spi"
         /\ capture' = capture]_vars

C19_Witness ==
    /\ call.op = "read_captured_image"
    /\ ~result.ok
    /\ Len(trace) = 1
    /\ capture = "Done"

\* C20: set_resolution(r) leaves r stored whether or not its table was
\* sent, and a later successful init keeps the stored resolution and ends
\* with the writes of the table of the stored resolution.
C20_NotAtomic ==
    [][/\ call'.op = "set_resolution" => resolution' = call'.arg
       /\ (call'.op = "init" /\ result'.ok) =>
            /\ resolution' = resolution
            /\ SubSeq(BusEvents(trace'), MaxTx - TableLen + 1, MaxTx) =
                 TableWrites(TableOf(resolution))]_vars

C20_Witness ==
    /\ call.op = "set_resolution"
    /\ ~result.ok
    /\ resolution = call.arg
    /\ resolution = "Res1600x1200"
    /\ Len(trace) = 2
    /\ trace[1] = ExpSensorWrite(OV2640_1600x1200_JPEG[1][1],
                                 OV2640_1600x1200_JPEG[1][2], TRUE)

====
